---- MODULE Spec2Model ----
(***************************************************************************)
(* Weather dashboard: the Express server (server/server.js) and the React  *)
(* client (client/src/App.js) as state machines.                           *)
(*                                                                         *)
(* SpecFav       : the favorites endpoints over the shared Favorite        *)
(*                 collection; handlers interleave at their awaits.        *)
(* SpecProxy     : the stateless geocode / forecast / searchWeather        *)
(*                 proxies and the two upstream services they call.        *)
(* SpecSuggest   : the client's query box, debounce timer and suggestions, *)
(*                 with the geocode handler.                               *)
(* SpecFetch     : the client's fetchForecast and runSearch, with the      *)
(*                 forecast and searchWeather handlers.                    *)
(* SpecClientFav : the client's favorites list, with the favorites         *)
(*                 handlers and the store.                                 *)
(***************************************************************************)
EXTENDS Integers, Sequences, FiniteSets, TLC

\* the server: the Favorite collection, its id and clock sources, and the
\* requests being handled
VARIABLES store, nextId, now, reqs, preqs

\* the client (client/src/App.js): the component's state, the debounce
\* timer, and what each of its pending fetches closes over
VARIABLES mounted, query, timer, idle, suggestions, selected,
          forecast, loading, error, favs, pend, fpend

cvars == <<mounted, query, timer, idle, suggestions, selected, forecast,
           loading, error, favs, pend, fpend>>

vars == <<store, nextId, now, reqs, preqs, cvars>>

(***************************************************************************)
(* Bounds                                                                  *)
(***************************************************************************)
\* number of favorites requests served in one behaviour
MaxFavReq == 3
\* number of proxy requests served in one behaviour
MaxProxyReq == 1
\* number of suggestion fetches the client issues in one behaviour
MaxSuggestReq == 1
\* number of forecast and search fetches the client issues in one behaviour
MaxFetchReq == 2
\* number of favorites requests the client issues in one behaviour
MaxClientFavReq == 3
\* milliseconds between two keystrokes
TypingGap == 100

FavReq == 1..MaxFavReq
ProxyReq == 1..MaxProxyReq

(***************************************************************************)
(* JSON values of a POST body                                              *)
(***************************************************************************)
\* a field that is absent from the body (destructures to undefined)
Undef == [t |-> "undefined", v |-> 0]
JNum(n) == [t |-> "number", v |-> n]
\* the JSON string holding the decimal digits of n
JNumStr(n) == [t |-> "string", v |-> n]
NoName == [t |-> "undefined", v |-> ""]
JStr(s) == [t |-> "string", v |-> s]

\* typeof x
TypeOf(x) == x.t

\* !name for a name that is a string or undefined
Falsy(x) == x.t = "undefined" \/ (x.t = "string" /\ x.v = "")

InvalidNames == {NoName, JStr("")}

\* bodies the model posts: well-formed bodies over two coordinates (a name
\* of one blank is well-formed), and bodies wrong in one field
ValidBodies ==
    {[name |-> JStr("A"), lat |-> JNum(1), lon |-> JNum(1)],
     [name |-> JStr("B"), lat |-> JNum(1), lon |-> JNum(1)],
     [name |-> JStr(" "), lat |-> JNum(2), lon |-> JNum(1)]}
BadBodies ==
    {[name |-> n, lat |-> JNum(1), lon |-> JNum(1)] : n \in InvalidNames}
    \cup {[name |-> JStr("A"), lat |-> JNumStr(1), lon |-> JNum(1)],
          [name |-> JStr("A"), lat |-> JNum(1), lon |-> Undef]}
Bodies == ValidBodies \cup BadBodies

\* the body of a request that carries none
NoBody == [name |-> NoName, lat |-> Undef, lon |-> Undef]

\* if (!name || typeof lat !== "number" || typeof lon !== "number")
MutInvalidBody(b) == Falsy(b.name) \/ TypeOf(b.lat) # "number"
InvalidBody(b) ==
    Falsy(b.name) \/ TypeOf(b.lat) # "number" \/ TypeOf(b.lon) # "number"

(***************************************************************************)
(* Strings and numbers of the query string                                 *)
(***************************************************************************)
\* A string is a sequence of characters; a query parameter is <<>> when it
\* is absent and <<s>> when it is present with the string s.
Absent == <<>>
Some(s) == <<s>>

Digits == {"0", "1", "2", "3", "4", "5", "6", "7", "8", "9"}
DigitVal(c) ==
    CASE c = "0" -> 0 [] c = "1" -> 1 [] c = "2" -> 2 [] c = "3" -> 3
      [] c = "4" -> 4 [] c = "5" -> 5 [] c = "6" -> 6 [] c = "7" -> 7
      [] c = "8" -> 8 [] c = "9" -> 9

RECURSIVE TrimStart(_)
TrimStart(s) == IF s # <<>> /\ Head(s) = " " THEN TrimStart(Tail(s)) ELSE s
RECURSIVE TrimEnd(_)
TrimEnd(s) ==
    IF s # <<>> /\ s[Len(s)] = " " THEN TrimEnd(SubSeq(s, 1, Len(s) - 1)) ELSE s
\* String.prototype.trim
Trim(s) == TrimEnd(TrimStart(s))

\* a JavaScript number: finite, NaN, or an infinity (v is its sign)
Fin(n) == [k |-> "finite", v |-> n]
NaN == [k |-> "NaN", v |-> 0]
Inf(sign) == [k |-> "Infinity", v |-> sign]

AllDigits(s) == s # <<>> /\ \A j \in 1..Len(s) : s[j] \in Digits
RECURSIVE DigitsValue(_)
DigitsValue(s) ==
    IF s = <<>> THEN 0
    ELSE 10 * DigitsValue(SubSeq(s, 1, Len(s) - 1)) + DigitVal(s[Len(s)])

InfinityStr == <<"I", "n", "f", "i", "n", "i", "t", "y">>

\* StringToNumber on signed decimal integers, "Infinity" and blanks
StringToNumber(s) ==
    LET t == Trim(s) IN
    IF t = <<>> THEN Fin(0)
    ELSE IF t = InfinityStr \/ t = <<"+">> \o InfinityStr THEN Inf(1)
    ELSE IF t = <<"-">> \o InfinityStr THEN Inf(-1)
    ELSE IF AllDigits(t) THEN Fin(DigitsValue(t))
    ELSE IF Head(t) = "+" /\ AllDigits(Tail(t)) THEN Fin(DigitsValue(Tail(t)))
    ELSE IF Head(t) = "-" /\ AllDigits(Tail(t)) THEN Fin(0 - DigitsValue(Tail(t)))
    ELSE NaN

\* Number(x) and +x for x a string or undefined
ToNumber(x) == IF x = Absent THEN NaN ELSE StringToNumber(x[1])

\* Number.isNaN
IsNaN(n) == n.k = "NaN"

\* (req.query.q || "").trim()
MutQueryText(q) == IF q = Absent THEN <<>> ELSE q[1]
QueryText(q) == IF q = Absent THEN <<>> ELSE Trim(q[1])

\* req.query.tz || "auto"
TimeZone(tz) == IF tz = Absent \/ tz = Some("") THEN "auto" ELSE tz[1]

(***************************************************************************)
(* The Favorite collection                                                 *)
(***************************************************************************)
\* a document of FavSchema with timestamps
NewFav(id, b, t) ==
    [id |-> id, name |-> b.name.v, lat |-> b.lat.v, lon |-> b.lon.v, createdAt |-> t]

StoreIds == {store[i].id : i \in 1..Len(store)}

\* ids a DELETE may name: 0 stands for a string that is not an ObjectId
BadId == 0
DeleteIds == {BadId, 1}

\* the documents matching {lat, lon}, as indexes into the collection
Matching(s, lat, lon) == {i \in 1..Len(s) : s[i].lat = lat /\ s[i].lon = lon}

\* Favorite.findOne({lat, lon}): no document, or the first matching one in
\* the collection's natural order (the order of insertion)
FindOne(s, lat, lon) ==
    IF Matching(s, lat, lon) = {} THEN <<>>
    ELSE <<s[CHOOSE i \in Matching(s, lat, lon) :
               \A j \in Matching(s, lat, lon) : i <= j]>>

\* Favorite.findByIdAndDelete(id)
FindByIdAndDelete(s, id) == SelectSeq(s, LAMBDA f : f.id # id)

RECURSIVE SortDesc(_)
\* orders documents by createdAt descending; equal stamps keep store order
SortDesc(s) ==
    IF Len(s) = 0 THEN <<>>
    ELSE LET m == CHOOSE i \in 1..Len(s) :
                     /\ \A j \in 1..Len(s) : s[j].createdAt <= s[i].createdAt
                     /\ \A j \in 1..(i-1) : s[j].createdAt < s[i].createdAt
         IN <<s[m]>> \o SortDesc(SubSeq(s, 1, m-1) \o SubSeq(s, m+1, Len(s)))

\* Favorite.find().sort({createdAt: -1}).lean()
MutFindSorted(s) == s
FindSorted(s) == SortDesc(s)

(***************************************************************************)
(* Favorites requests                                                      *)
(***************************************************************************)
IdleReq ==
    [kind |-> "none", pc |-> "idle", body |-> NoBody, id |-> 0,
     after |-> {}, inserted |-> FALSE, failed |-> FALSE,
     status |-> 0, err |-> "", favs |-> <<>>, ok |-> FALSE]

\* the request is answered: res.status(st).json(...)
Respond(r, st, msg, list, ok) ==
    [r EXCEPT !.pc = "done", !.status = st, !.err = msg, !.favs = list, !.ok = ok]

\* the request's handler ended without answering
Unanswered(r) == [r EXCEPT !.pc = "dropped"]

\* requests take the slots in order of arrival
IsNext(i) ==
    /\ reqs[i].pc = "idle"
    /\ \A j \in 1..(i-1) : reqs[j].pc # "idle"

\* the creates already answered with a record when a new request arrives
Finished == {j \in FavReq : reqs[j].kind = "post" /\ reqs[j].pc = "done" /\ reqs[j].status = 200}

\* app.post("/api/favorites"), lines up to the first await: the request
\* record after them
PostBegin(r0, b) ==
    LET r == [r0 EXCEPT !.kind = "post", !.body = b]
    IN IF InvalidBody(b)
       THEN Respond(r, 400, "name, lat, lon required", <<>>, FALSE)
       ELSE [r EXCEPT !.pc = "findOne", !.after = Finished]

\* a POST /api/favorites arrives
PostStart(i, b) ==
    /\ IsNext(i)
    /\ reqs' = [reqs EXCEPT ![i] = PostBegin(reqs[i], b)]
    /\ UNCHANGED <<store, nextId, now, preqs, cvars>>

\* if (existing)
MutFound(existing) == FALSE
Found(existing) == existing # <<>>

\* await Favorite.findOne({lat, lon}) and the code up to the next await
PostFindOne(i) ==
    /\ reqs[i].pc = "findOne"
    /\ \/ LET existing == FindOne(store, reqs[i].body.lat.v, reqs[i].body.lon.v)
          IN reqs' = [reqs EXCEPT ![i] =
                 IF Found(existing)
                 THEN Respond(reqs[i], 200, "", existing, FALSE)
                 ELSE [reqs[i] EXCEPT !.pc = "create"]]
       \/ reqs' = [reqs EXCEPT ![i] = Respond(reqs[i], 500, "Save failed", <<>>, FALSE)]
    /\ UNCHANGED <<store, nextId, now, preqs, cvars>>

\* await Favorite.create({name, lat, lon}); res.json(fav)
PostCreate(i) ==
    /\ reqs[i].pc = "create"
    /\ \/ \E t \in {now, now + 1} :
             /\ LET fav == NewFav(nextId, reqs[i].body, t)
                IN /\ store' = Append(store, fav)
                   /\ reqs' = [reqs EXCEPT ![i] =
                          Respond([reqs[i] EXCEPT !.inserted = TRUE], 200, "", <<fav>>, FALSE)]
             /\ nextId' = nextId + 1
             /\ now' = t
       \/ /\ reqs' = [reqs EXCEPT ![i] = Respond(reqs[i], 500, "Save failed", <<>>, FALSE)]
          /\ UNCHANGED <<store, nextId, now>>
    /\ UNCHANGED <<preqs, cvars>>

\* app.delete("/api/favorites/:id"), up to the await
DeleteBegin(r0, id) == [r0 EXCEPT !.kind = "delete", !.id = id, !.pc = "delete"]

\* a DELETE /api/favorites/:id arrives
DeleteStart(i, id) ==
    /\ IsNext(i)
    /\ reqs' = [reqs EXCEPT ![i] = DeleteBegin(reqs[i], id)]
    /\ UNCHANGED <<store, nextId, now, preqs, cvars>>

\* the answer after the store operation, whether it succeeded or failed
MutDeleteReply(r, failed) ==
    IF failed THEN Respond(r, 500, "Delete failed", <<>>, FALSE)
    ELSE Respond(r, 200, "", <<>>, TRUE)
DeleteReply(r, failed) == Respond(r, 200, "", <<>>, TRUE)

\* await Favorite.findByIdAndDelete(id).catch(() => {}); res.json({ok: true})
DeleteExec(i) ==
    /\ reqs[i].pc = "delete"
    /\ \E failed \in BOOLEAN :
          /\ reqs[i].id = BadId => failed
          /\ store' = IF failed THEN store ELSE FindByIdAndDelete(store, reqs[i].id)
          /\ reqs' = [reqs EXCEPT ![i] =
                 DeleteReply([reqs[i] EXCEPT !.failed = failed], failed)]
    /\ UNCHANGED <<nextId, now, preqs, cvars>>

\* app.get("/api/favorites"), up to the await
ListBegin(r0) == [r0 EXCEPT !.kind = "list", !.pc = "find"]

\* a GET /api/favorites arrives
ListStart(i) ==
    /\ IsNext(i)
    /\ reqs' = [reqs EXCEPT ![i] = ListBegin(reqs[i])]
    /\ UNCHANGED <<store, nextId, now, preqs, cvars>>

\* await Favorite.find().sort({createdAt: -1}).lean(); res.json(favs)
\* The handler has no try/catch: when the query rejects, the rejection
\* leaves the handler. The framework either never answers (Express 4) or
\* answers 500 from its default error handler (Express 5).
ListExec(i) ==
    /\ reqs[i].pc = "find"
    /\ \/ reqs' = [reqs EXCEPT ![i] = Respond(reqs[i], 200, "", FindSorted(store), FALSE)]
       \/ reqs' = [reqs EXCEPT ![i] = Unanswered(reqs[i])]
       \/ reqs' = [reqs EXCEPT ![i] =
              Respond(reqs[i], 500, "Internal Server Error", <<>>, FALSE)]
    /\ UNCHANGED <<store, nextId, now, preqs, cvars>>


(***************************************************************************)
(* The upstream services                                                   *)
(***************************************************************************)
\* program constants of the upstream requests
GeocodeLimit == 5
SearchLimit == 1
ForecastDays == 7

\* records the place-search service returns (lat and lon are strings)
Kolhapur ==
    [display_name |-> "Kolhapur, Maharashtra, India",
     lat |-> <<"1", "6">>, lon |-> <<"7", "4">>]
SouthPole ==
    [display_name |-> "South Pole, Antarctica",
     lat |-> <<"-", "9", "0">>, lon |-> <<"1", "8", "0">>]
Kolkata ==
    [display_name |-> "Kolkata, West Bengal, India",
     lat |-> <<"2", "2">>, lon |-> <<"8", "8">>]
Kola ==
    [display_name |-> "Kola, Murmansk Oblast, Russia",
     lat |-> <<"6", "8">>, lon |-> <<"3", "3">>]
Kolding ==
    [display_name |-> "Kolding, Denmark",
     lat |-> <<"5", "5">>, lon |-> <<"9">>]
Kolobrzeg ==
    [display_name |-> "Kolobrzeg, Poland",
     lat |-> <<"5", "4">>, lon |-> <<"1", "5">>]

\* the matches of the place-search service, in its ranking
GeoRecords == <<SouthPole, Kolhapur, Kolkata, Kola, Kolding, Kolobrzeg>>

\* what axios.get(nominatim search) settles with: a rejection, a JSON value
\* that is not an array, or the array of the first n matches, for an n of
\* at most params.limit
PlaceSearch(params) ==
    {[ok |-> FALSE, isArray |-> FALSE, data |-> <<>>],
     [ok |-> TRUE, isArray |-> FALSE, data |-> <<>>]}
    \cup {[ok |-> TRUE, isArray |-> TRUE, data |-> SubSeq(GeoRecords, 1, n)] :
             n \in {m \in 0..Len(GeoRecords) : m <= params.limit}}

\* the payloads of the forecast service, passed through unread
ForecastPayloads == {"weatherA", "weatherB"}

\* what axios.get(open-meteo forecast) settles with
ForecastService(params) ==
    {[ok |-> FALSE, data |-> ""]}
    \cup {[ok |-> TRUE, data |-> d] : d \in ForecastPayloads}

CurrentVars ==
    {"temperature_2m", "relative_humidity_2m", "apparent_temperature",
     "wind_speed_10m", "precipitation"}
HourlyVars ==
    {"temperature_2m", "precipitation", "relative_humidity_2m", "wind_speed_10m"}
DailyVars ==
    {"weathercode", "temperature_2m_max", "temperature_2m_min",
     "precipitation_sum", "uv_index_max", "wind_speed_10m_max"}

\* params of the place search issued by /api/geocode
MutGeocodeParams(q) ==
    [q |-> q, format |-> "json", addressdetails |-> 1, limit |-> GeocodeLimit + 1]
GeocodeParams(q) ==
    [q |-> q, format |-> "json", addressdetails |-> 1, limit |-> GeocodeLimit]

\* params of the place search issued by /api/searchWeather
SearchParams(q) == [q |-> q, format |-> "json", limit |-> SearchLimit]

\* params of the forecast request issued by /api/forecast
ForecastParams(lat, lon, tz) ==
    [latitude |-> lat, longitude |-> lon,
     current |-> CurrentVars, hourly |-> HourlyVars, daily |-> DailyVars,
     timezone |-> tz, forecast_days |-> ForecastDays]

\* params of the forecast request issued by /api/searchWeather
SearchForecastParams(lat, lon, tz) ==
    [latitude |-> lat, longitude |-> lon,
     current |-> CurrentVars, daily |-> DailyVars,
     timezone |-> tz, forecast_days |-> ForecastDays]

\* (r) => ({name: r.display_name, lat: +r.lat, lon: +r.lon})
ToPlace(r) ==
    [name |-> r.display_name, lat |-> ToNumber(Some(r.lat)), lon |-> ToNumber(Some(r.lon))]

\* data.map(ToPlace)
MapPlaces(data) == [j \in 1..Len(data) |-> ToPlace(data[j])]

(***************************************************************************)
(* Proxy requests                                                          *)
(***************************************************************************)
IdleProxy ==
    [kind |-> "none", pc |-> "idle", q |-> Absent, lat |-> Absent, lon |-> Absent,
     tz |-> Absent, geoCalls |-> <<>>, fcCalls |-> <<>>, geoReply |-> <<>>,
     place |-> <<>>, status |-> 0, err |-> "", places |-> <<>>, data |-> <<>>]

\* res.status(st).json({error}) / res.json(...)
Answer(r, st, err, places, data) ==
    [r EXCEPT !.pc = "done", !.status = st, !.err = err, !.places = places, !.data = data]

ProxyIsNext(i) == preqs[i].pc = "idle" /\ \A j \in 1..(i-1) : preqs[j].pc # "idle"

\* query texts and coordinates the model sends
QueryTexts ==
    {Absent, Some(<<>>), Some(<<" ", " ">>), Some(<<"K", "o", "l">>),
     Some(<<" ", "K", "o", "l", " ">>)}
LatTexts ==
    {Absent, Some(<<>>), Some(<<" ">>), Some(<<"a", "b", "c">>), Some(InfinityStr),
     Some(<<"1", "6">>), Some(<<"9", "1">>), Some(<<"-", "9", "0">>)}
LonTexts == {Absent, Some(<<>>), Some(<<"7", "4">>), Some(<<"-">> \o InfinityStr)}
TzTexts == {Absent, Some(""), Some("Asia/Kolkata")}

\* if (!q)
Blank(q) == q = <<>>

\* app.get("/api/geocode"), up to the await
GeocodeBegin(r0, qp) ==
    LET r == [r0 EXCEPT !.kind = "geocode", !.q = qp]
        q == QueryText(qp)
    IN IF Blank(q) THEN Answer(r, 200, "", <<>>, <<>>)
       ELSE [r EXCEPT !.pc = "geo", !.geoCalls = <<GeocodeParams(q)>>]

\* a GET /api/geocode arrives
GeocodeStart(i, qp) ==
    /\ ProxyIsNext(i)
    /\ preqs' = [preqs EXCEPT ![i] = GeocodeBegin(preqs[i], qp)]
    /\ UNCHANGED <<store, nextId, now, reqs, cvars>>

\* the place search settles; res.json(data.map(...)) or the catch block
GeocodeReply(i) ==
    /\ preqs[i].kind = "geocode" /\ preqs[i].pc = "geo"
    /\ \E g \in PlaceSearch(preqs[i].geoCalls[1]) :
          preqs' = [preqs EXCEPT ![i] =
              IF g.ok /\ g.isArray
              THEN Answer([preqs[i] EXCEPT !.geoReply = <<g>>], 200, "", MapPlaces(g.data), <<>>)
              ELSE Answer([preqs[i] EXCEPT !.geoReply = <<g>>], 500, "Geocoding failed", <<>>, <<>>)]
    /\ UNCHANGED <<store, nextId, now, reqs, cvars>>

\* if (Number.isNaN(lat) || Number.isNaN(lon)) of /api/forecast
BadCoords(lat, lon) == IsNaN(lat) \/ IsNaN(lon)

\* app.get("/api/forecast"), up to the await
ForecastBegin(r0, latp, lonp, tzp) ==
    LET r == [r0 EXCEPT !.kind = "forecast", !.lat = latp, !.lon = lonp, !.tz = tzp]
        lat == ToNumber(latp)
        lon == ToNumber(lonp)
        tz == TimeZone(tzp)
    IN IF BadCoords(lat, lon) THEN Answer(r, 400, "lat/lon required", <<>>, <<>>)
       ELSE [r EXCEPT !.pc = "fc", !.fcCalls = <<ForecastParams(lat, lon, tz)>>]

\* a GET /api/forecast arrives
ForecastStart(i, latp, lonp, tzp) ==
    /\ ProxyIsNext(i)
    /\ preqs' = [preqs EXCEPT ![i] = ForecastBegin(preqs[i], latp, lonp, tzp)]
    /\ UNCHANGED <<store, nextId, now, reqs, cvars>>

\* the forecast request settles; res.json(data) or the catch block
ForecastReply(i) ==
    /\ preqs[i].kind = "forecast" /\ preqs[i].pc = "fc"
    /\ \E f \in ForecastService(preqs[i].fcCalls[1]) :
          preqs' = [preqs EXCEPT ![i] =
              IF f.ok THEN Answer(preqs[i], 200, "", <<>>, <<f.data>>)
              ELSE Answer(preqs[i], 500, "Forecast failed", <<>>, <<>>)]
    /\ UNCHANGED <<store, nextId, now, reqs, cvars>>

\* app.get("/api/searchWeather"), up to the first await
SearchBegin(r0, qp, tzp) ==
    LET r == [r0 EXCEPT !.kind = "search", !.q = qp, !.tz = tzp]
        q == QueryText(qp)
    IN IF Blank(q) THEN Answer(r, 400, "q required", <<>>, <<>>)
       ELSE [r EXCEPT !.pc = "geo", !.geoCalls = <<SearchParams(q)>>]

\* a GET /api/searchWeather arrives
SearchStart(i, qp, tzp) ==
    /\ ProxyIsNext(i)
    /\ preqs' = [preqs EXCEPT ![i] = SearchBegin(preqs[i], qp, tzp)]
    /\ UNCHANGED <<store, nextId, now, reqs, cvars>>

\* if (!g.data?.length): a value that is not an array has no length
NoResults(g) == ~g.isArray \/ Len(g.data) = 0

\* whether the handler goes on to the forecast after the place search
MutProceeds(g) == g.ok
Proceeds(g) == g.ok /\ ~NoResults(g)

\* the place search settles: the catch block, 404, or the forecast request
SearchGeoReply(i) ==
    /\ preqs[i].kind = "search" /\ preqs[i].pc = "geo"
    /\ \E g \in PlaceSearch(preqs[i].geoCalls[1]) :
          LET r == [preqs[i] EXCEPT !.geoReply = <<g>>]
              place == IF g.isArray /\ Len(g.data) > 0 THEN ToPlace(g.data[1])
                       ELSE [name |-> "", lat |-> NaN, lon |-> NaN]
          IN preqs' = [preqs EXCEPT ![i] =
                 IF Proceeds(g)
                 THEN [r EXCEPT !.pc = "fc", !.place = <<place>>,
                          !.fcCalls = <<SearchForecastParams(place.lat, place.lon,
                                                             TimeZone(r.tz))>>]
                 ELSE IF ~g.ok THEN Answer(r, 500, "Search failed", <<>>, <<>>)
                 ELSE Answer(r, 404, "Place not found", <<>>, <<>>)]
    /\ UNCHANGED <<store, nextId, now, reqs, cvars>>

\* the forecast request settles: res.json({place, forecast}) or the catch block
SearchForecastReply(i) ==
    /\ preqs[i].kind = "search" /\ preqs[i].pc = "fc"
    /\ \E f \in ForecastService(preqs[i].fcCalls[1]) :
          preqs' = [preqs EXCEPT ![i] =
              IF f.ok THEN Answer(preqs[i], 200, "", preqs[i].place, <<f.data>>)
              ELSE Answer(preqs[i], 500, "Search failed", <<>>, <<>>)]
    /\ UNCHANGED <<store, nextId, now, reqs, cvars>>


(***************************************************************************)
(* The client: state and values                                            *)
(***************************************************************************)
\* setTimeout(..., 350)
Debounce == 350

\* useState("Kolhapur")
InitialQuery == <<"K", "o", "l", "h", "a", "p", "u", "r">>

\* texts the query box is set to (by typing, or by setQuery(name) of a
\* clicked suggestion or favorite)
ClientTexts ==
    {<<>>, <<" ">>, <<"K">>, <<"K", "o">>, <<"K", "o", "l">>, InitialQuery}

\* Intl.DateTimeFormat().resolvedOptions().timeZone
ClientTz == Some("Asia/Kolkata")

\* places fetchForecast is called with: a clicked suggestion, a clicked
\* favorite, or a point clicked on the map
ClientPlaces ==
    {[name |-> "Kolhapur, Maharashtra, India", lat |-> Fin(16), lon |-> Fin(74)],
     [name |-> "Lat -90.000, Lon 180.000", lat |-> Fin(-90), lon |-> Fin(180)]}

\* the suggestions state: the array last set, or a value that is not an
\* array (the {error} object of a 500 reply)
Suggestions(items) == [isArray |-> TRUE, items |-> items]
NotAnArray == [isArray |-> FALSE, items |-> <<>>]

\* what a pending fetch of geocode, forecast or searchWeather closes over
\* and how it settled: got a reply, or was rejected (network failure)
NoPend ==
    [op |-> "none", text |-> <<>>, place |-> <<>>, got |-> FALSE, rejected |-> FALSE]
\* what a pending fetch of the favorites endpoints closes over
NoFavPend == [op |-> "none", id |-> 0, got |-> FALSE, rejected |-> FALSE]

DigitChar(n) ==
    CASE n = 0 -> "0" [] n = 1 -> "1" [] n = 2 -> "2" [] n = 3 -> "3"
      [] n = 4 -> "4" [] n = 5 -> "5" [] n = 6 -> "6" [] n = 7 -> "7"
      [] n = 8 -> "8" [] n = 9 -> "9"

RECURSIVE NatToString(_)
NatToString(n) ==
    IF n < 10 THEN <<DigitChar(n)>>
    ELSE NatToString(n \div 10) \o <<DigitChar(n % 10)>>

\* `${x}` for a number x
NumberToString(x) ==
    CASE x.k = "NaN" -> <<"N", "a", "N">>
      [] x.k = "Infinity" -> IF x.v < 0 THEN <<"-">> \o InfinityStr ELSE InfinityStr
      [] x.k = "finite" ->
            IF x.v < 0 THEN <<"-">> \o NatToString(0 - x.v) ELSE NatToString(x.v)

\* the client state before the component is mounted
ClientInit ==
    /\ mounted = FALSE
    /\ query = InitialQuery
    /\ timer = <<>>
    /\ idle = 0
    /\ suggestions = Suggestions(<<>>)
    /\ selected = <<>>
    /\ forecast = <<>>
    /\ loading = FALSE
    /\ error = ""
    /\ favs = <<>>
    /\ pend = [i \in DOMAIN preqs |-> NoPend]
    /\ fpend = [i \in DOMAIN reqs |-> NoFavPend]

\* the server state when it starts listening
ServerInit(nfav, nproxy) ==
    /\ store = <<>>
    /\ nextId = 1
    /\ now = 0
    /\ reqs = [i \in 1..nfav |-> IdleReq]
    /\ preqs = [i \in 1..nproxy |-> IdleProxy]

(***************************************************************************)
(* The client: mounting, the query box and the debounced suggestions       *)
(***************************************************************************)
\* the effects of the first render: fetch /api/favorites (lines 30-32) and
\* arm the debounce timer for the initial query (lines 35-44)
Mount ==
    /\ ~mounted
    /\ mounted' = TRUE
    /\ \E i \in DOMAIN reqs :
          /\ IsNext(i)
          /\ reqs' = [reqs EXCEPT ![i] = ListBegin(reqs[i])]
          /\ fpend' = [fpend EXCEPT ![i] = [NoFavPend EXCEPT !.op = "load"]]
    /\ timer' = <<Debounce>>
    /\ idle' = 0
    /\ UNCHANGED <<store, nextId, now, preqs, query, suggestions,
                   selected, forecast, loading, error, favs, pend>>

\* the timer after the effect of a query change: clearTimeout(id) of the
\* pending one and a new setTimeout
MutRearm(t) == IF t = <<>> THEN <<Debounce>> ELSE t
Rearm(t) == <<Debounce>>

\* one edit of the text in the box: a character typed at the end, the last
\* character deleted, or the whole text replaced by at most one character
OneEdit(old, new) ==
    \/ Len(new) <= 1
    \/ Len(new) = Len(old) + 1 /\ SubSeq(new, 1, Len(old)) = old
    \/ Len(old) = Len(new) + 1 /\ SubSeq(old, 1, Len(new)) = new

\* setQuery(text) with a different text, and the effect it triggers
Type(text) ==
    /\ mounted
    /\ text # query
    /\ OneEdit(query, text)
    /\ query' = text
    /\ timer' = Rearm(timer)
    /\ idle' = 0
    /\ UNCHANGED <<store, nextId, now, reqs, preqs, mounted, suggestions,
                   selected, forecast, loading, error, favs, pend, fpend>>

Min(a, b) == IF a < b THEN a ELSE b

\* d milliseconds pass, or less if the timer is due earlier
Elapse(d) ==
    /\ timer # <<>> /\ timer[1] > 0
    /\ LET e == Min(d, timer[1])
       IN /\ timer' = <<timer[1] - e>>
          /\ idle' = Min(idle + e, Debounce)
    /\ UNCHANGED <<store, nextId, now, reqs, preqs, mounted, query, suggestions,
                   selected, forecast, loading, error, favs, pend, fpend>>

\* the timer callback: if (!query.trim()) return setSuggestions([]);
\* otherwise fetch /api/geocode?q=query
TimerFire ==
    /\ timer = <<0>>
    /\ timer' = <<>>
    /\ IF Blank(Trim(query))
       THEN /\ suggestions' = Suggestions(<<>>)
            /\ UNCHANGED <<preqs, pend>>
       ELSE /\ \E i \in DOMAIN preqs :
                  /\ ProxyIsNext(i)
                  /\ preqs' = [preqs EXCEPT ![i] = GeocodeBegin(preqs[i], Some(query))]
                  /\ pend' = [pend EXCEPT ![i] =
                         [NoPend EXCEPT !.op = "suggest", !.text = query]]
            /\ UNCHANGED suggestions
    /\ UNCHANGED <<store, nextId, now, reqs, mounted, query, idle, selected,
                   forecast, loading, error, favs, fpend>>

\* setSuggestions(await r.json()): the array of a 200 reply, or the error
\* object of a 500 reply
SuggestRecv(i) ==
    /\ pend[i].op = "suggest" /\ ~pend[i].got
    /\ preqs[i].pc = "done"
    /\ pend' = [pend EXCEPT ![i].got = TRUE]
    /\ suggestions' =
          IF preqs[i].status = 200 THEN Suggestions(preqs[i].places)
          ELSE NotAnArray
    /\ UNCHANGED <<store, nextId, now, reqs, preqs, mounted, query, timer, idle,
                   selected, forecast, loading, error, favs, fpend>>

\* the fetch rejects (network failure): catch { setSuggestions([]); }
SuggestFail(i) ==
    /\ pend[i].op = "suggest" /\ ~pend[i].got
    /\ pend' = [pend EXCEPT ![i].got = TRUE, ![i].rejected = TRUE]
    /\ suggestions' = Suggestions(<<>>)
    /\ UNCHANGED <<store, nextId, now, reqs, preqs, mounted, query, timer, idle,
                   selected, forecast, loading, error, favs, fpend>>

(***************************************************************************)
(* The client: fetchForecast and runSearch                                 *)
(***************************************************************************)
\* the message of a rejected fetch
NetworkError == "Failed to fetch"

\* the part of the state a settled forecast or search request writes
View == [selected |-> selected, forecast |-> forecast, error |-> error]

\* fetchForecast(place), up to the await of fetch
FetchForecast(place) ==
    /\ mounted
    /\ loading' = TRUE
    /\ error' = ""
    /\ \E i \in DOMAIN preqs :
          /\ ProxyIsNext(i)
          /\ preqs' = [preqs EXCEPT ![i] =
                 ForecastBegin(preqs[i], Some(NumberToString(place.lat)),
                               Some(NumberToString(place.lon)), ClientTz)]
          /\ pend' = [pend EXCEPT ![i] =
                 [NoPend EXCEPT !.op = "forecast", !.place = <<place>>]]
    /\ UNCHANGED <<store, nextId, now, reqs, mounted, query, timer, idle,
                   suggestions, selected, forecast, favs, fpend>>

\* runSearch(), up to the await of fetch; a blank query returns at once
RunSearch ==
    /\ mounted
    /\ ~Blank(Trim(query))
    /\ loading' = TRUE
    /\ error' = ""
    /\ \E i \in DOMAIN preqs :
          /\ ProxyIsNext(i)
          /\ preqs' = [preqs EXCEPT ![i] =
                 SearchBegin(preqs[i], Some(Trim(query)), ClientTz)]
          /\ pend' = [pend EXCEPT ![i] =
                 [NoPend EXCEPT !.op = "search", !.text = Trim(query)]]
    /\ UNCHANGED <<store, nextId, now, reqs, mounted, query, timer, idle,
                   suggestions, selected, forecast, favs, fpend>>

\* a forecast or search request of the client that has not settled
FetchInFlight(i) == pend[i].op \in {"forecast", "search"} /\ ~pend[i].got

\* the place a successful reply selects: the argument of fetchForecast, or
\* data.place of the searchWeather reply
MutReplyPlace(p, r) == IF p.op = "forecast" THEN p.place ELSE selected
ReplyPlace(p, r) == IF p.op = "forecast" THEN p.place ELSE r.places

\* setSelected(place); setForecast(data)
MutThen(v, place, data) ==
    IF v.selected # <<>> THEN v ELSE [v EXCEPT !.selected = place, !.forecast = data]
Then(v, place, data) == [v EXCEPT !.selected = place, !.forecast = data]

\* catch (e) { setError(e.message || fallback) }
MutCatch(v, message, fallback) ==
    [v EXCEPT !.error = IF message = "" THEN fallback ELSE message, !.forecast = <<>>]
Catch(v, message, fallback) ==
    [v EXCEPT !.error = IF message = "" THEN fallback ELSE message]

Fallback(p) == IF p.op = "forecast" THEN "Failed to load forecast" ELSE "Search failed"

\* the reply arrives: if (data.error) throw; otherwise the place and the
\* forecast are set; finally setLoading(false)
FetchRecv(i) ==
    /\ FetchInFlight(i)
    /\ preqs[i].pc = "done"
    /\ pend' = [pend EXCEPT ![i].got = TRUE]
    /\ LET v == IF preqs[i].err # ""
                THEN Catch(View, preqs[i].err, Fallback(pend[i]))
                ELSE Then(View, ReplyPlace(pend[i], preqs[i]), preqs[i].data)
       IN /\ selected' = v.selected
          /\ forecast' = v.forecast
          /\ error' = v.error
    /\ loading' = FALSE
    /\ UNCHANGED <<store, nextId, now, reqs, preqs, mounted, query, timer,
                   idle, suggestions, favs, fpend>>

\* the fetch rejects (network failure): the catch block, then finally
FetchFail(i) ==
    /\ FetchInFlight(i)
    /\ pend' = [pend EXCEPT ![i].got = TRUE, ![i].rejected = TRUE]
    /\ LET v == Catch(View, NetworkError, Fallback(pend[i]))
       IN /\ selected' = v.selected
          /\ forecast' = v.forecast
          /\ error' = v.error
    /\ loading' = FALSE
    /\ UNCHANGED <<store, nextId, now, reqs, preqs, mounted, query, timer,
                   idle, suggestions, favs, fpend>>

(***************************************************************************)
(* The client: the favorites list                                          *)
(***************************************************************************)
\* JSON.stringify of a number: NaN and the infinities become null
JsonNumber(x) == IF x.k = "finite" THEN JNum(x.v) ELSE [t |-> "object", v |-> 0]

\* JSON.stringify(selected), as the handler destructures it
Stringify(place) ==
    [name |-> JStr(place.name), lat |-> JsonNumber(place.lat),
     lon |-> JsonNumber(place.lon)]

\* the place the user selects and saves
SavedPlaces == {p \in ClientPlaces : p.lat = Fin(16)}

\* a successful forecast or search reply sets the selected place
SelectPlace(place) ==
    /\ mounted
    /\ selected # <<place>>
    /\ selected' = <<place>>
    /\ UNCHANGED <<store, nextId, now, reqs, preqs, mounted, query, timer, idle,
                   suggestions, forecast, loading, error, favs, pend, fpend>>

\* saveFavorite(), up to the await of fetch
SaveFavorite ==
    /\ mounted
    /\ selected # <<>>
    /\ \E i \in DOMAIN reqs :
          /\ IsNext(i)
          /\ reqs' = [reqs EXCEPT ![i] = PostBegin(reqs[i], Stringify(selected[1]))]
          /\ fpend' = [fpend EXCEPT ![i] = [NoFavPend EXCEPT !.op = "save"]]
    /\ UNCHANGED <<store, nextId, now, preqs, mounted, query, timer, idle,
                   suggestions, selected, forecast, loading, error, favs, pend>>

\* setFavs((p) => p.some(f => f._id === data._id) ? p : [data, ...p])
MutAddFav(p, data) == <<data>> \o p
AddFav(p, data) ==
    IF \E k \in 1..Len(p) : p[k].id = data.id THEN p ELSE <<data>> \o p

\* the POST reply arrives: if (data?._id) setFavs(...)
SaveRecv(i) ==
    /\ fpend[i].op = "save" /\ ~fpend[i].got
    /\ reqs[i].pc = "done"
    /\ fpend' = [fpend EXCEPT ![i].got = TRUE]
    /\ favs' = IF reqs[i].status = 200 /\ reqs[i].favs # <<>>
               THEN AddFav(favs, reqs[i].favs[1])
               ELSE favs
    /\ UNCHANGED <<store, nextId, now, reqs, preqs, mounted, query, timer, idle,
                   suggestions, selected, forecast, loading, error, pend>>

\* the delete button of the k-th favorite, up to the await of fetch
ClickDelete(k) ==
    /\ k \in 1..Len(favs)
    /\ \E i \in DOMAIN reqs :
          /\ IsNext(i)
          /\ reqs' = [reqs EXCEPT ![i] = DeleteBegin(reqs[i], favs[k].id)]
          /\ fpend' = [fpend EXCEPT ![i] =
                 [NoFavPend EXCEPT !.op = "delete", !.id = favs[k].id]]
    /\ UNCHANGED <<store, nextId, now, preqs, mounted, query, timer, idle,
                   suggestions, selected, forecast, loading, error, favs, pend>>

\* setFavs((p) => p.filter((x) => x._id !== f._id))
Without(p, id) == SelectSeq(p, LAMBDA x : x.id # id)

\* the DELETE reply arrives; its body is not read
DeleteRecv(i) ==
    /\ fpend[i].op = "delete" /\ ~fpend[i].got
    /\ reqs[i].pc = "done"
    /\ fpend' = [fpend EXCEPT ![i].got = TRUE]
    /\ favs' = Without(favs, fpend[i].id)
    /\ UNCHANGED <<store, nextId, now, reqs, preqs, mounted, query, timer, idle,
                   suggestions, selected, forecast, loading, error, pend>>

\* the reply of the startup GET arrives: .then(r => r.json()).then(setFavs);
\* the body of a 500 from the default error handler is not JSON, and the
\* rejection of r.json() is swallowed by .catch(() => {})
LoadRecv(i) ==
    /\ fpend[i].op = "load" /\ ~fpend[i].got
    /\ reqs[i].pc = "done"
    /\ fpend' = [fpend EXCEPT ![i].got = TRUE]
    /\ favs' = IF reqs[i].status = 200 THEN reqs[i].favs ELSE favs
    /\ UNCHANGED <<store, nextId, now, reqs, preqs, mounted, query, timer, idle,
                   suggestions, selected, forecast, loading, error, pend>>

\* a favorites fetch rejects (network failure): no handler changes the state
FavFail(i) ==
    /\ fpend[i].op # "none" /\ ~fpend[i].got
    /\ fpend' = [fpend EXCEPT ![i].got = TRUE, ![i].rejected = TRUE]
    /\ UNCHANGED <<store, nextId, now, reqs, preqs, mounted, query, timer, idle,
                   suggestions, selected, forecast, loading, error, favs, pend>>

(***************************************************************************)
(* Specifications                                                          *)
(***************************************************************************)
InitFav == ServerInit(MaxFavReq, MaxProxyReq) /\ ClientInit

NextFav ==
    \/ \E i \in FavReq, b \in Bodies : PostStart(i, b)
    \/ \E i \in FavReq : PostFindOne(i)
    \/ \E i \in FavReq : PostCreate(i)
    \/ \E i \in FavReq, id \in DeleteIds : DeleteStart(i, id)
    \/ \E i \in FavReq : DeleteExec(i)
    \/ \E i \in FavReq : ListStart(i)
    \/ \E i \in FavReq : ListExec(i)

SpecFav == InitFav /\ [][NextFav]_vars

InitProxy == ServerInit(MaxFavReq, MaxProxyReq) /\ ClientInit

NextProxy ==
    \/ \E i \in ProxyReq, q \in QueryTexts : GeocodeStart(i, q)
    \/ \E i \in ProxyReq : GeocodeReply(i)
    \/ \E i \in ProxyReq, a \in LatTexts, o \in LonTexts, z \in TzTexts :
          ForecastStart(i, a, o, z)
    \/ \E i \in ProxyReq : ForecastReply(i)
    \/ \E i \in ProxyReq, q \in QueryTexts, z \in TzTexts : SearchStart(i, q, z)
    \/ \E i \in ProxyReq : SearchGeoReply(i)
    \/ \E i \in ProxyReq : SearchForecastReply(i)

SpecProxy == InitProxy /\ [][NextProxy]_vars

\* the query box and the suggestions of one client, with the geocode handler
InitSuggest == ServerInit(1, MaxSuggestReq) /\ ClientInit

NextSuggest ==
    \/ Mount
    \/ \E text \in ClientTexts : Type(text)
    \/ \E d \in {TypingGap, Debounce} : Elapse(d)
    \/ TimerFire
    \/ \E i \in DOMAIN preqs : GeocodeReply(i)
    \/ \E i \in DOMAIN preqs : SuggestRecv(i)
    \/ \E i \in DOMAIN preqs : SuggestFail(i)

SpecSuggest == InitSuggest /\ [][NextSuggest]_vars

\* fetchForecast and runSearch of one client, with the forecast and
\* searchWeather handlers
InitFetch == ServerInit(1, MaxFetchReq) /\ ClientInit

NextFetch ==
    \/ Mount
    \/ \E place \in ClientPlaces : FetchForecast(place)
    \/ RunSearch
    \/ \E i \in DOMAIN preqs : ForecastReply(i)
    \/ \E i \in DOMAIN preqs : SearchGeoReply(i)
    \/ \E i \in DOMAIN preqs : SearchForecastReply(i)
    \/ \E i \in DOMAIN preqs : FetchRecv(i)
    \/ \E i \in DOMAIN preqs : FetchFail(i)

SpecFetch == InitFetch /\ [][NextFetch]_vars

\* the favorites list of one client, with the favorites handlers and store
InitClientFav == ServerInit(MaxClientFavReq, 1) /\ ClientInit

NextClientFav ==
    \/ Mount
    \/ \E place \in SavedPlaces : SelectPlace(place)
    \/ SaveFavorite
    \/ \E k \in 1..Len(favs) : ClickDelete(k)
    \/ \E i \in DOMAIN reqs : PostFindOne(i)
    \/ \E i \in DOMAIN reqs : PostCreate(i)
    \/ \E i \in DOMAIN reqs : DeleteExec(i)
    \/ \E i \in DOMAIN reqs : ListExec(i)
    \/ \E i \in DOMAIN reqs : SaveRecv(i)
    \/ \E i \in DOMAIN reqs : DeleteRecv(i)
    \/ \E i \in DOMAIN reqs : LoadRecv(i)
    \/ \E i \in DOMAIN reqs : FavFail(i)

SpecClientFav == InitClientFav /\ [][NextClientFav]_vars

(***************************************************************************)
(* Properties of the Favorites Store                                       *)
(***************************************************************************)
SameCoords(a, b) == a.lat = b.lat /\ a.lon = b.lon

\* a create that was answered with a record
Created(i) == reqs[i].kind = "post" /\ reqs[i].pc = "done" /\ reqs[i].status = 200

\* C1: in every reachable state the store holds at most one Favorite per
\* (lat, lon) pair, however the POST and DELETE handlers interleave.
C1_UniqueCoords ==
    \A i, j \in 1..Len(store) : SameCoords(store[i], store[j]) => i = j

\* C2: a create called after a create for the same (lat, lon) was answered,
\* whose record has not been deleted, returns that same record and inserts
\* nothing.
C2_CreateIdempotent ==
    \A p1, p2 \in FavReq :
        (/\ Created(p1) /\ Created(p2)
         /\ p1 \in reqs[p2].after
         /\ SameCoords(reqs[p1].favs[1],
                       [lat |-> reqs[p2].body.lat.v, lon |-> reqs[p2].body.lon.v])
         /\ reqs[p1].favs[1].id \in StoreIds)
        => (reqs[p2].favs = reqs[p1].favs /\ ~reqs[p2].inserted)

\* C3: every DELETE is answered 200 {ok: true}; when the store operation
\* succeeded no record with that id remains; a delete of an id that is not
\* stored leaves the store unchanged.
C3_DeleteAlwaysOk ==
    [][\A i \in FavReq :
          (reqs[i].pc = "delete" /\ reqs'[i].pc # "delete") =>
             /\ reqs'[i].pc = "done" /\ reqs'[i].status = 200
             /\ reqs'[i].ok /\ reqs'[i].err = ""
             /\ ~reqs'[i].failed =>
                    reqs[i].id \notin {store'[k].id : k \in 1..Len(store')}
             /\ reqs[i].id \notin StoreIds => store' = store
             /\ \A k \in 1..Len(store') : \E m \in 1..Len(store) : store'[k] = store[m]]_vars

\* a record was created, deleted, and deleted again, both deletes succeeding
C3_Witness ==
    \E p, d1, d2 \in FavReq :
        /\ d1 < d2
        /\ reqs[p].inserted /\ Created(p)
        /\ \A d \in {d1, d2} :
              /\ reqs[d].kind = "delete" /\ reqs[d].pc = "done" /\ ~reqs[d].failed
              /\ reqs[d].id = reqs[p].favs[1].id
              /\ reqs[d].status = 200
        /\ store = <<>>

\* the bodies the claim calls invalid: name empty or missing, lat or lon
\* not a number
C4_BadInput(b) ==
    \/ b.name \in InvalidNames
    \/ b.lat.t # "number"
    \/ b.lon.t # "number"

\* C4: a POST with an empty or missing name or a non-numeric lat or lon is
\* answered 400 in its first step, before any store operation and with the
\* store unchanged; no other body is answered 400.
C4_Validation ==
    [][\A i \in FavReq :
          /\ (reqs[i].pc = "idle" /\ reqs'[i].kind = "post") =>
                IF C4_BadInput(reqs'[i].body)
                THEN /\ reqs'[i].pc = "done" /\ reqs'[i].status = 400
                     /\ store' = store
                ELSE reqs'[i].pc = "findOne"
          /\ (reqs'[i].kind = "post" /\ reqs'[i].status = 400) =>
                C4_BadInput(reqs'[i].body)]_vars

\* a rejected POST next to a stored record, and an accepted POST with a
\* blank name
C4_Witness ==
    \E i, j \in FavReq :
        /\ reqs[i].kind = "post" /\ reqs[i].status = 400
        /\ reqs[i].body.lon = Undef
        /\ Created(j) /\ reqs[j].inserted /\ reqs[j].body.name = JStr(" ")
        /\ Len(store) = 1

\* C11: a list request answered 200 returns exactly the records in the
\* store at the time of the query, ordered by creation time descending: a
\* record with a later createdAt comes before every record with an earlier
\* one; an empty store yields the empty list.
C11_ListOrder ==
    [][\A i \in FavReq :
          (reqs[i].pc = "find" /\ reqs'[i].pc = "done" /\ reqs'[i].status = 200) =>
             LET l == reqs'[i].favs IN
             /\ Len(l) = Len(store)
             /\ {l[k] : k \in 1..Len(l)} = {store[k] : k \in 1..Len(store)}
             /\ \A j, k \in 1..Len(l) :
                   l[j].createdAt > l[k].createdAt => j < k]_vars

\* two records with different creation times were listed, the later first
C11_Witness ==
    \E i \in FavReq :
        /\ reqs[i].kind = "list" /\ reqs[i].pc = "done" /\ reqs[i].status = 200
        /\ Len(reqs[i].favs) = 2
        /\ reqs[i].favs[1].id = 2 /\ reqs[i].favs[2].id = 1
        /\ reqs[i].favs[1].createdAt > reqs[i].favs[2].createdAt

\* the record with the given id, as a set of at most one record
WithId(s, id) == {s[k] : k \in {m \in 1..Len(s) : s[m].id = id}}

\* C18: a stored record never changes between its creation and its
\* deletion, and the store changes only in the insert of a POST whose
\* findOne found nothing and in a DELETE; list requests, rejected POSTs and
\* POSTs whose findOne found the coordinates leave the store unchanged.
C18_StoreFrame ==
    [][/\ \A k \in 1..Len(store) :
             WithId(store', store[k].id) \subseteq {store[k]}
       /\ store' # store =>
             \E i \in FavReq :
                \/ /\ reqs[i].pc = "create" /\ reqs'[i].inserted
                   /\ ~C4_BadInput(reqs[i].body)
                   /\ store' = Append(store, reqs'[i].favs[1])
                \/ /\ reqs[i].pc = "delete" /\ reqs'[i].pc = "done"
                   /\ \A k \in 1..Len(store') : store'[k].id # reqs[i].id
       /\ \A i \in FavReq :
             (\/ reqs'[i].kind = "list"
              \/ reqs'[i].status = 400
              \/ reqs[i].pc = "findOne" /\ Matching(store, reqs[i].body.lat.v,
                                                   reqs[i].body.lon.v) # {})
             => (reqs'[i] # reqs[i] => store' = store /\ reqs'[i].pc # "create")]_vars

\* a POST for stored coordinates was answered with the stored record, whose
\* name is still the first one, next to a rejected POST and a list
C18_Witness ==
    \E a, b \in FavReq :
        /\ a # b
        /\ Created(a) /\ reqs[a].inserted
        /\ Created(b) /\ ~reqs[b].inserted
        /\ reqs[b].body.name # reqs[a].body.name
        /\ reqs[b].favs = reqs[a].favs
        /\ store = reqs[a].favs

(***************************************************************************)
(* Properties of the proxies                                               *)
(***************************************************************************)
\* a parameter that parses as a finite number: present, and after trimming
\* a decimal integer with an optional sign
C5_ParsesFinite(x) ==
    /\ x # Absent
    /\ LET t == Trim(x[1])
       IN \/ AllDigits(t)
          \/ t # <<>> /\ Head(t) \in {"+", "-"} /\ AllDigits(Tail(t))

\* C5: a forecast request whose lat or lon is missing or does not parse as
\* a finite number is answered 400 and issues no upstream forecast call.
C5_ForecastValidation ==
    \A i \in ProxyReq :
        (/\ preqs[i].kind = "forecast"
         /\ ~C5_ParsesFinite(preqs[i].lat) \/ ~C5_ParsesFinite(preqs[i].lon))
        => (/\ preqs[i].pc = "done" /\ preqs[i].status = 400
            /\ preqs[i].fcCalls = <<>>)

\* C6: every request other than a delete whose handling ended was answered,
\* with 200 or with a mapped error status (400, 404, 500) and a message;
\* this includes a list request whose store query failed.
C6_FailuresAnswered ==
    /\ \A i \in FavReq :
          (reqs[i].kind \in {"post", "list"} /\ reqs[i].pc \notin {"idle", "findOne", "create", "find"})
          => /\ reqs[i].pc = "done"
             /\ \/ reqs[i].status = 200 /\ reqs[i].err = ""
                \/ reqs[i].status \in {400, 500} /\ reqs[i].err # ""
    /\ \A i \in ProxyReq :
          (preqs[i].pc \notin {"idle", "geo", "fc"})
          => /\ preqs[i].pc = "done"
             /\ \/ preqs[i].status = 200 /\ preqs[i].err = ""
                \/ preqs[i].status \in {400, 404, 500} /\ preqs[i].err # ""

\* a query text that is missing or consists of blanks only
C7_BlankQuery(q) == q = Absent \/ \A j \in 1..Len(q[1]) : q[1][j] = " "

C8_SameForecastRequest ==
    \A i \in ProxyReq :
        preqs[i].fcCalls # <<>> =>
           LET c == preqs[i].fcCalls[1] IN
           /\ DOMAIN c = {"latitude", "longitude", "current", "daily",
                          "timezone", "forecast_days"}
           /\ c.current = {"temperature_2m", "apparent_temperature",
                           "relative_humidity_2m", "wind_speed_10m", "precipitation"}
           /\ c.daily = {"weathercode", "temperature_2m_max", "temperature_2m_min",
                         "precipitation_sum", "uv_index_max", "wind_speed_10m_max"}
           /\ c.forecast_days = 7
           /\ c = SearchForecastParams(c.latitude, c.longitude, c.timezone)
           /\ c = ForecastParams(c.latitude, c.longitude, c.timezone)

\* C9: a geocode request with a missing, empty or blank q is answered 200
\* with an empty array and issues no place search.
C9_BlankGeocode ==
    \A i \in ProxyReq :
        (preqs[i].kind = "geocode" /\ C7_BlankQuery(preqs[i].q))
        => /\ preqs[i].pc = "done" /\ preqs[i].status = 200
           /\ preqs[i].places = <<>> /\ preqs[i].err = ""
           /\ preqs[i].geoCalls = <<>>

\* a geocode request for two blanks was answered
C9_Witness ==
    \E i \in ProxyReq :
        /\ preqs[i].kind = "geocode" /\ preqs[i].q = Some(<<" ", " ">>)
        /\ preqs[i].pc = "done" /\ preqs[i].status = 200

InRange(n, lo, hi) == n.k = "finite" /\ lo <= n.v /\ n.v <= hi

SuggestIssued(i) == pend[i].op = "none" /\ pend'[i].op = "suggest"

\* this step runs the timer callback
Fires == timer = <<0>> /\ timer' = <<>>

\* C12: a geocode call is issued only by the timer callback, for the current
\* text, which has not changed for the full 350 ms and is not blank; every
\* change of the text issues no call and re-arms the timer to the full delay;
\* the callback issues the call when the text is not blank and otherwise
\* issues none and sets the suggestions to the empty list.
C12_Debounce ==
    [][/\ \A i \in DOMAIN pend :
             SuggestIssued(i) =>
                /\ Fires
                /\ idle = Debounce
                /\ query' = query
                /\ ~Blank(Trim(query))
                /\ pend'[i].text = query
                /\ preqs[i].pc = "idle" /\ preqs'[i].kind = "geocode"
       /\ query' # query =>
             /\ timer' = <<Debounce>>
             /\ idle' = 0
             /\ \A i \in DOMAIN pend : ~SuggestIssued(i)
       /\ Fires =>
             IF Blank(Trim(query))
             THEN /\ \A i \in DOMAIN pend : ~SuggestIssued(i)
                  /\ preqs' = preqs
                  /\ suggestions' = Suggestions(<<>>)
             ELSE \E i \in DOMAIN pend : SuggestIssued(i)]_vars

\* "K", "Ko", "Kol" were typed less than 350 ms apart and one call was
\* issued, for "Kol", after the pause
C12_Witness ==
    /\ query = <<"K", "o", "l">>
    /\ idle = Debounce
    /\ timer = <<>>
    /\ {i \in DOMAIN pend : pend[i].op = "suggest"} = {1}
    /\ pend[1].text = <<"K", "o", "l">>

\* C17: the reply of a suggestion fetch is applied to the suggestions only
\* if the query text is still the text the fetch was issued for and no later
\* suggestion fetch has been issued.
C17_NoStaleSuggestions ==
    [][\A i \in DOMAIN pend :
          (/\ pend[i].op = "suggest" /\ ~pend[i].got /\ pend'[i].got
           /\ preqs[i].pc = "done"
           /\ suggestions' = Suggestions(preqs[i].places)
           /\ preqs[i].places # <<>>) =>
             /\ pend[i].text = query
             /\ \A j \in DOMAIN pend : j > i => pend[j].op # "suggest"]_vars

(***************************************************************************)
(* Properties of fetchForecast and runSearch                               *)
(***************************************************************************)
\* C13: whenever a forecast or search request of the client is in flight,
\* the loading flag is true.
C13_LoadingWhileInFlight ==
    (\E i \in DOMAIN pend : FetchInFlight(i)) => loading

\* this step settles the forecast or search request of slot i
Settles(i) == FetchInFlight(i) /\ pend'[i].got

\* the request of slot i failed: the fetch was rejected, or the reply
\* carries an error
FailedFetch(p, r) == p.rejected \/ (r.pc = "done" /\ r.err # "")

\* C14: the step in which a forecast or search request fails sets a
\* non-empty error message (the reply's error, or the network error), leaves
\* the selected place and the forecast unchanged, and issues no request.
C14_FailureFrame ==
    [][\A i \in DOMAIN pend :
          (Settles(i) /\ FailedFetch(pend'[i], preqs[i])) =>
             /\ error' # ""
             /\ error' = IF pend'[i].rejected THEN NetworkError ELSE preqs[i].err
             /\ selected' = selected
             /\ forecast' = forecast
             /\ preqs' = preqs /\ reqs' = reqs
             /\ \A j \in DOMAIN pend : j # i => pend'[j] = pend[j]]_vars

\* a request failed while a place and its forecast were shown: they still
\* are, with the error message
C14_Witness ==
    \E i \in DOMAIN pend :
       /\ pend[i].op \in {"forecast", "search"} /\ pend[i].got
       /\ FailedFetch(pend[i], preqs[i])
       /\ \A j \in DOMAIN pend : j > i => pend[j].op = "none"
       /\ error # ""
       /\ selected # <<>> /\ forecast # <<>>
       /\ ~loading

\* the place and the payload of the successful reply of slot i
PlaceOf(i) == IF pend[i].op = "forecast" THEN pend[i].place ELSE preqs[i].places
Succeeded(i) ==
    /\ pend[i].op \in {"forecast", "search"}
    /\ pend[i].got /\ ~pend[i].rejected
    /\ preqs[i].pc = "done" /\ preqs[i].status = 200

\* C16: every successful reply, in whatever order the replies arrive and
\* whatever was requested since, sets the selected place and the forecast to
\* its own; a request stays in flight until its own reply or failure, and
\* issuing a request leaves the other requests as they are.
C16_LastReplyWins ==
    [][\A i \in DOMAIN pend :
          /\ (Settles(i) /\ ~FailedFetch(pend'[i], preqs[i])) =>
                /\ preqs[i].pc = "done" /\ preqs[i].status = 200
                /\ selected' = PlaceOf(i)
                /\ forecast' = preqs[i].data
          /\ FetchInFlight(i) =>
                /\ pend'[i].op = pend[i].op
                /\ pend'[i].place = pend[i].place
                /\ preqs'[i].kind = preqs[i].kind
                /\ preqs[i].pc = "done" => preqs'[i] = preqs[i]]_vars

\* two forecast requests for different places, both answered with success:
\* the place and forecast shown are those of the earlier request
C16_Witness ==
    /\ Succeeded(1) /\ Succeeded(2)
    /\ pend[1].op = "forecast" /\ pend[2].op = "forecast"
    /\ pend[1].place # pend[2].place
    /\ preqs[1].data # preqs[2].data
    /\ selected = pend[1].place
    /\ forecast = preqs[1].data

\* the selected place and the forecast are both unset, or are the place and
\* the payload of one successful reply
ConsistentPair ==
    \/ selected = <<>> /\ forecast = <<>>
    \/ \E i \in DOMAIN pend :
          /\ Succeeded(i)
          /\ selected # <<>> /\ forecast # <<>>
          /\ selected = PlaceOf(i)
          /\ forecast = preqs[i].data

\* C19: in every state the selected place and the forecast are both unset or
\* are the place and the payload of one successful reply (the place passed to
\* fetchForecast, or the place of the searchWeather reply), and a step that
\* changes either of them is the arrival of a successful reply, which sets
\* both, to its own place and payload.
C19_ConsistentPair ==
    /\ []ConsistentPair
    /\ [][(selected' # selected \/ forecast' # forecast) =>
                \E i \in DOMAIN pend :
                   /\ Settles(i) /\ preqs[i].pc = "done" /\ preqs[i].status = 200
                   /\ selected' = PlaceOf(i) /\ forecast' = preqs[i].data]_vars

\* a search reply set the pair after a forecast reply had set another one
C19_Witness ==
    /\ Succeeded(1) /\ Succeeded(2)
    /\ pend[1].op = "forecast" /\ pend[2].op = "search"
    /\ selected = preqs[2].places /\ forecast = preqs[2].data
    /\ selected # pend[1].place /\ forecast # preqs[1].data

(***************************************************************************)
(* Properties of the client's favorites list                               *)
(***************************************************************************)
FavIds == {favs[k].id : k \in 1..Len(favs)}

\* this step receives the server's reply to the favorites request of slot i
Receives(i) ==
    /\ fpend[i].op # "none" /\ ~fpend[i].got
    /\ fpend'[i].got /\ ~fpend'[i].rejected
    /\ reqs[i].pc = "done"

\* C15: a step that changes the favorites list receives the reply of a
\* request: the 200 reply of the load, which replaces the list; a 200 reply
\* of a save carrying a record whose id is not listed, which is put first; or
\* the reply of a delete, whose id is removed. Issuing a request and a
\* rejected request leave the list unchanged, and the load is issued once,
\* at mount.
C15_FavsFromReplies ==
    [][/\ favs' # favs =>
             \E i \in DOMAIN fpend :
                /\ Receives(i)
                /\ \/ /\ fpend[i].op = "load" /\ reqs[i].status = 200
                      /\ favs' = reqs[i].favs
                   \/ /\ fpend[i].op = "save" /\ reqs[i].status = 200
                      /\ reqs[i].favs # <<>>
                      /\ reqs[i].favs[1].id \notin FavIds
                      /\ favs' = <<reqs[i].favs[1]>> \o favs
                   \/ /\ fpend[i].op = "delete"
                      /\ favs' = Without(favs, fpend[i].id)
       /\ \A i \in DOMAIN fpend :
             (fpend'[i].op = "load" /\ fpend[i].op # "load") =>
                /\ ~mounted /\ mounted'
                /\ \A j \in DOMAIN fpend : fpend[j].op # "load"]_vars

\* two saves were answered with the same record, which is listed once
C15_Witness ==
    \E a, b \in DOMAIN fpend :
       /\ a # b
       /\ fpend[a].op = "save" /\ fpend[a].got /\ ~fpend[a].rejected
       /\ fpend[b].op = "save" /\ fpend[b].got /\ ~fpend[b].rejected
       /\ reqs[a].status = 200 /\ reqs[b].status = 200
       /\ reqs[a].favs = reqs[b].favs
       /\ favs = reqs[a].favs

\* C20: when the client is mounted, every request it issued has been
\* answered and the reply received (none in flight, none rejected), the ids
\* of its favorites list are the ids of the store.
C20_ListMatchesStore ==
    (/\ mounted
     /\ \A i \in DOMAIN fpend :
           fpend[i].op # "none" => fpend[i].got /\ ~fpend[i].rejected) =>
       FavIds = StoreIds
====
